---- MODULE Spec2Model ----
(***************************************************************************)
(* screen-wake-lock: the guard facade (lib.rs) over the Linux D-Bus        *)
(* backend (linux.rs), the Windows power-request backend (windows.rs) and  *)
(* the macOS power-assertion backend (macos.rs).                           *)
(*                                                                         *)
(* Every public operation is one atomic action (the crate is synchronous   *)
(* and single-threaded); the platform effects an operation has, in the     *)
(* order the code produces them, are recorded as a sequence of events.     *)
(* The outcome of every fallible platform call is an input of the          *)
(* environment.                                                            *)
(***************************************************************************)
EXTENDS Integers, Sequences, FiniteSets, TLC

\* ------------------------------------------------------------------ bounds
\* How many times release is invoked on one guard, and is_supported probed.
MaxReleases == 2
MaxProbes == 1

\* ------------------------------------------------------- program constants
GNOME_INHIBIT_IDLE == 8
PORTAL_INHIBIT_IDLE == 8

\* Option::None of an Option<String>.
None == "<None>"

\* Inputs of acquire.
Reasons == {"demo"}
AppIds == {None, "org.example.App"}
ReasonOverrides == {None, "override"}

\* What a try_* helper can meet: the call succeeds, Proxy::new fails, or the
\* remote call fails.
Outcomes == {"ok", "proxy_err", "call_err"}

\* Tokens the services hand out (one environment choice picks both).
Tokens == {1, 2}

VARIABLES
    sessionOk,   \* environment: Connection::session() succeeds
    systemOk,    \* environment: Connection::system() succeeds
    mechOut,     \* environment: outcome of mechanism 1..5's inhibit attempt
    token,       \* environment: which cookie / request path the service returns
    args,        \* the inputs acquire was called with (NoArgs before the call)
    result,      \* "pending", "Ok" or the Error variant acquire returned
    inner,       \* linux::Inner {lock, active}
    granted,     \* history: the PlatformWakeLock acquire returned (NoLock if none)
    open,        \* connections and descriptors currently open
    acqEv,       \* events of the acquire call, in order
    relEv,       \* one event sequence per invocation of release
    relRet,      \* per invocation: what PlatformWakeLock::release returned
    relOut,      \* per invocation: what release returned to its caller
    probes,      \* results of the is_supported calls made so far
    \* ---- Windows backend (windows.rs)
    winOut,      \* environment: which Win32 calls succeed
    winHandleVal,\* environment: the HANDLE PowerCreateRequest returns
    wResult,     \* "pending", "Ok" or "Err": what acquire returned
    wLock,       \* the PlatformWakeLock acquire returned (NoWinLock if none)
    wOpen,       \* request handles created and not successfully closed
    wFlags,      \* request types currently set on the request
    wAcqEv,      \* Win32 calls of acquire, in order
    wRelEv,      \* Win32 calls of release, in order
    wRelRet,     \* "pending", or what release returned
    \* ---- macOS backend (macos.rs)
    macRc,       \* environment: status IOPMAssertionCreateWithName returns
    macId,       \* environment: the assertion id it writes on success
    macRelRc,    \* environment: status IOPMAssertionRelease returns
    mArgs,       \* the reason acquire was called with (None before the call)
    mResult,     \* "pending", "Ok" or the Error variant acquire returned
    mInner,      \* macos::Inner {id, active}
    mGranted,    \* history: the Inner acquire returned
    mHeld,       \* assertions created and not successfully released
    mAcqEv,      \* IOKit calls of acquire, in order
    mRelEv,      \* one sequence of IOKit calls per invocation of release
    mProbes      \* results of the is_supported calls made so far

linuxVars == <<sessionOk, systemOk, mechOut, token, args, result, inner, granted,
               open, acqEv, relEv, relRet, relOut, probes>>

winVars == <<winOut, winHandleVal, wResult, wLock, wOpen, wFlags, wAcqEv, wRelEv,
             wRelRet>>

macVars == <<macRc, macId, macRelRc, mArgs, mResult, mInner, mGranted, mHeld,
             mAcqEv, mRelEv, mProbes>>

vars == <<linuxVars, winVars, macVars>>

\* ------------------------------------------------------------------ events
Ev(op, conn, svc, path, iface, method, sargs, nargs, ok) ==
    [op |-> op, conn |-> conn, svc |-> svc, path |-> path, iface |-> iface,
     method |-> method, sargs |-> sargs, nargs |-> nargs, ok |-> ok]

\* Opening a bus connection (conn is "session" or "system"), or receiving a
\* descriptor; dropping either.
OpenEv(res, ok) == Ev("open", res, "", "", "", "", <<>>, <<>>, ok)
CloseEv(res) == Ev("close", res, "", "", "", "", <<>>, <<>>, TRUE)

\* Proxy::new(conn, destination, path, interface)
ProxyNew(conn, svc, path, iface, ok) ==
    Ev("proxy", conn, svc, path, iface, "", <<>>, <<>>, ok)

\* proxy.call(method, body)
ProxyCall(conn, svc, path, iface, method, sargs, nargs, ok) ==
    Ev("call", conn, svc, path, iface, method, sargs, nargs, ok)

\* The resources open after the events ev, starting from the set o.
RECURSIVE Replay(_, _)
Replay(o, ev) ==
    IF ev = <<>> THEN o
    ELSE LET e == Head(ev)
             o1 == IF e.op = "open" /\ e.ok THEN o \cup {e.conn}
                   ELSE IF e.op = "close" THEN o \ {e.conn}
                   ELSE o
         IN Replay(o1, Tail(ev))

\* --------------------------------------------------------- D-Bus addresses
GnomeDest == "org.gnome.SessionManager"
GnomePath == "/org/gnome/SessionManager"
GnomeIface == "org.gnome.SessionManager"
ScreenSaverDest == "org.freedesktop.ScreenSaver"
ScreenSaverPath == "/org/freedesktop/ScreenSaver"
ScreenSaverIface == "org.freedesktop.ScreenSaver"
PowerDest == "org.freedesktop.PowerManagement"
PowerPath == "/org/freedesktop/PowerManagement/Inhibit"
PowerIface == "org.freedesktop.PowerManagement.Inhibit"
PortalDest == "org.freedesktop.portal.Desktop"
PortalPath == "/org/freedesktop/portal/desktop"
PortalIface == "org.freedesktop.portal.Inhibit"
PortalRequestIface == "org.freedesktop.portal.Request"
LogindDest == "org.freedesktop.login1"
LogindPath == "/org/freedesktop/login1"
LogindIface == "org.freedesktop.login1.Manager"

\* What the answering service returns.
CookieOf(t) == 41 + t
RequestPathOf(t) ==
    IF t = 1 THEN "/org/freedesktop/portal/desktop/request/1"
    ELSE "/org/freedesktop/portal/desktop/request/2"

\* ----------------------------------------------------------------- Backend
\* enum Backend: the variant, the connection it owns, and its undo token.
Backend(kind, conn, cookie, handle, fd) ==
    [backend |-> kind, conn |-> conn, cookie |-> cookie, handle |-> handle,
     fd |-> fd]

\* Option<PlatformWakeLock>::None
NoLock == Backend("None", "", 0, "", "")

\* Connection::session(), Connection::system()
\* (c names the connection object the caller binds the result to).
Connection_session(c) == [ok |-> sessionOk, ev |-> <<OpenEv(c, sessionOk)>>]
Connection_system(c) == [ok |-> systemOk, ev |-> <<OpenEv(c, systemOk)>>]

TryResult(ok, cookie, handle, ev) ==
    [ok |-> ok, cookie |-> cookie, handle |-> handle, ev |-> ev]

try_gnome_session(conn, application_id, reason) ==
    LET p == ProxyNew(conn, GnomeDest, GnomePath, GnomeIface,
                      mechOut[1] # "proxy_err")
        c == ProxyCall(conn, GnomeDest, GnomePath, GnomeIface, "Inhibit",
                       <<application_id, reason>>, <<0, GNOME_INHIBIT_IDLE>>,
                       mechOut[1] = "ok")
    IN  IF mechOut[1] = "proxy_err" THEN TryResult(FALSE, 0, "", <<p>>)
        ELSE IF mechOut[1] = "call_err" THEN TryResult(FALSE, 0, "", <<p, c>>)
        ELSE TryResult(TRUE, CookieOf(token), "", <<p, c>>)

try_fdo_screensaver(conn, application_id, reason) ==
    LET p == ProxyNew(conn, ScreenSaverDest, ScreenSaverPath, ScreenSaverIface,
                      mechOut[2] # "proxy_err")
        c == ProxyCall(conn, ScreenSaverDest, ScreenSaverPath, ScreenSaverIface,
                       "Inhibit", <<application_id, reason>>, <<>>,
                       mechOut[2] = "ok")
    IN  IF mechOut[2] = "proxy_err" THEN TryResult(FALSE, 0, "", <<p>>)
        ELSE IF mechOut[2] = "call_err" THEN TryResult(FALSE, 0, "", <<p, c>>)
        ELSE TryResult(TRUE, CookieOf(token), "", <<p, c>>)

try_fdo_powermanagement(conn, application_id, reason) ==
    LET p == ProxyNew(conn, PowerDest, PowerPath, PowerIface,
                      mechOut[3] # "proxy_err")
        c == ProxyCall(conn, PowerDest, PowerPath, PowerIface, "Inhibit",
                       <<application_id, reason>>, <<>>, mechOut[3] = "ok")
    IN  IF mechOut[3] = "proxy_err" THEN TryResult(FALSE, 0, "", <<p>>)
        ELSE IF mechOut[3] = "call_err" THEN TryResult(FALSE, 0, "", <<p, c>>)
        ELSE TryResult(TRUE, CookieOf(token), "", <<p, c>>)

\* The options map holds the one key "reason"; the first argument is the
\* (empty) parent window.
try_xdg_portal(conn, reason) ==
    LET p == ProxyNew(conn, PortalDest, PortalPath, PortalIface,
                      mechOut[4] # "proxy_err")
        c == ProxyCall(conn, PortalDest, PortalPath, PortalIface, "Inhibit",
                       <<"", "reason", reason>>, <<PORTAL_INHIBIT_IDLE>>,
                       mechOut[4] = "ok")
    IN  IF mechOut[4] = "proxy_err" THEN TryResult(FALSE, 0, "", <<p>>)
        ELSE IF mechOut[4] = "call_err" THEN TryResult(FALSE, 0, "", <<p, c>>)
        ELSE TryResult(TRUE, 0, RequestPathOf(token), <<p, c>>)

\* Mutant of try_logind: the connection is not dropped when the call fails.
try_logind_leak(application_id, reason) ==
    LET s == Connection_system("system")
        p == ProxyNew("system", LogindDest, LogindPath, LogindIface,
                      mechOut[5] # "proxy_err")
        c == ProxyCall("system", LogindDest, LogindPath, LogindIface, "Inhibit",
                       <<"idle", application_id, reason, "block">>, <<>>,
                       mechOut[5] = "ok")
    IN  IF ~s.ok THEN [ok |-> FALSE, ev |-> s.ev]
        ELSE IF mechOut[5] = "proxy_err" THEN [ok |-> FALSE, ev |-> s.ev \o <<p>>]
        ELSE IF mechOut[5] = "call_err" THEN [ok |-> FALSE, ev |-> s.ev \o <<p, c>>]
        ELSE [ok |-> TRUE, ev |-> s.ev \o <<p, c, OpenEv("fd", TRUE)>>]

\* try_logind opens its own system connection; on success the connection and
\* the descriptor are returned to the caller, on failure the connection is
\* dropped when the function returns.
LogindResult(ok, ev) == [ok |-> ok, ev |-> ev]

try_logind(application_id, reason) ==
    LET s == Connection_system("system")
        p == ProxyNew("system", LogindDest, LogindPath, LogindIface,
                      mechOut[5] # "proxy_err")
        c == ProxyCall("system", LogindDest, LogindPath, LogindIface, "Inhibit",
                       <<"idle", application_id, reason, "block">>, <<>>,
                       mechOut[5] = "ok")
    IN  IF ~s.ok THEN LogindResult(FALSE, s.ev)
        ELSE IF mechOut[5] = "proxy_err"
             THEN LogindResult(FALSE, s.ev \o <<p, CloseEv("system")>>)
        ELSE IF mechOut[5] = "call_err"
             THEN LogindResult(FALSE, s.ev \o <<p, c, CloseEv("system")>>)
        ELSE LogindResult(TRUE, s.ev \o <<p, c, OpenEv("fd", TRUE)>>)

\* ------------------------------------------------ PlatformWakeLock::acquire
\* Mutant of Acquired: the handle does not keep the connection, which is
\* dropped when acquire returns.
Acquired_dropped(backend, ev) ==
    [ok |-> TRUE, err |-> "", lock |-> backend,
     ev |-> ev \o <<CloseEv(backend.conn)>>]

\* return Ok(Self { backend }): the connection moves into the handle.
Acquired(backend, ev) == [ok |-> TRUE, err |-> "", lock |-> backend, ev |-> ev]

\* Err(Error::Unsupported(..))
NotAcquired(err, ev) == [ok |-> FALSE, err |-> err, lock |-> NoLock, ev |-> ev]

\* Mutant of acquire_logind_fallback: the last failure is reported as a D-Bus
\* error.
acquire_logind_fallback_dbus(application_id, reason, ev) ==
    LET l == try_logind(application_id, reason)
    IN  IF l.ok
        THEN [ok |-> TRUE, err |-> "", ev |-> ev \o l.ev,
              lock |-> Backend("Logind", "system", 0, "", "fd")]
        ELSE [ok |-> FALSE, err |-> "Dbus", lock |-> NoLock, ev |-> ev \o l.ev]

\* The fallback after the session block, and the final error.
acquire_logind_fallback(application_id, reason, ev) ==
    LET l == try_logind(application_id, reason)
    IN  IF l.ok THEN Acquired(Backend("Logind", "system", 0, "", "fd"), ev \o l.ev)
        ELSE NotAcquired("Unsupported", ev \o l.ev)

\* Mutant of acquire_session_mechanisms: ScreenSaver is tried before the
\* GNOME session manager.
acquire_session_mechanisms_swapped(conn, application_id, reason, ev) ==
    LET g == try_gnome_session(conn, application_id, reason)
        f == try_fdo_screensaver(conn, application_id, reason)
        p == try_fdo_powermanagement(conn, application_id, reason)
        x == try_xdg_portal(conn, reason)
        Got(backend, e) == [ok |-> TRUE, err |-> "", lock |-> backend, ev |-> e]
    IN  IF f.ok
        THEN Got(Backend("FdoScreenSaver", conn, f.cookie, "", ""), ev \o f.ev)
        ELSE IF g.ok
        THEN Got(Backend("GnomeSession", conn, g.cookie, "", ""),
                 ev \o f.ev \o g.ev)
        ELSE IF p.ok
        THEN Got(Backend("FdoPowerManagement", conn, p.cookie, "", ""),
                 ev \o f.ev \o g.ev \o p.ev)
        ELSE IF x.ok
        THEN Got(Backend("XdgPortal", conn, 0, x.handle, ""),
                 ev \o f.ev \o g.ev \o p.ev \o x.ev)
        ELSE acquire_logind_fallback(application_id, reason,
                 ev \o f.ev \o g.ev \o p.ev \o x.ev \o <<CloseEv(conn)>>)

\* Mutant of acquire_session_mechanisms: the session connection outlives the
\* block and is still open when logind is tried.
acquire_session_mechanisms_keeps_session(conn, application_id, reason, ev) ==
    LET g == try_gnome_session(conn, application_id, reason)
        f == try_fdo_screensaver(conn, application_id, reason)
        p == try_fdo_powermanagement(conn, application_id, reason)
        x == try_xdg_portal(conn, reason)
    IN  IF g.ok
        THEN Acquired(Backend("GnomeSession", conn, g.cookie, "", ""), ev \o g.ev)
        ELSE IF f.ok
        THEN Acquired(Backend("FdoScreenSaver", conn, f.cookie, "", ""),
                      ev \o g.ev \o f.ev)
        ELSE IF p.ok
        THEN Acquired(Backend("FdoPowerManagement", conn, p.cookie, "", ""),
                      ev \o g.ev \o f.ev \o p.ev)
        ELSE IF x.ok
        THEN Acquired(Backend("XdgPortal", conn, 0, x.handle, ""),
                      ev \o g.ev \o f.ev \o p.ev \o x.ev)
        ELSE acquire_logind_fallback(application_id, reason,
                 ev \o g.ev \o f.ev \o p.ev \o x.ev)

\* The body of `if let Ok(conn) = Connection::session()`: the four session
\* mechanisms in source order; conn is dropped where the block ends.
acquire_session_mechanisms(conn, application_id, reason, ev) ==
    LET g == try_gnome_session(conn, application_id, reason)
        f == try_fdo_screensaver(conn, application_id, reason)
        p == try_fdo_powermanagement(conn, application_id, reason)
        x == try_xdg_portal(conn, reason)
    IN  IF g.ok
        THEN Acquired(Backend("GnomeSession", conn, g.cookie, "", ""), ev \o g.ev)
        ELSE IF f.ok
        THEN Acquired(Backend("FdoScreenSaver", conn, f.cookie, "", ""),
                      ev \o g.ev \o f.ev)
        ELSE IF p.ok
        THEN Acquired(Backend("FdoPowerManagement", conn, p.cookie, "", ""),
                      ev \o g.ev \o f.ev \o p.ev)
        ELSE IF x.ok
        THEN Acquired(Backend("XdgPortal", conn, 0, x.handle, ""),
                      ev \o g.ev \o f.ev \o p.ev \o x.ev)
        ELSE acquire_logind_fallback(application_id, reason,
                 ev \o g.ev \o f.ev \o p.ev \o x.ev \o <<CloseEv(conn)>>)

\* Mutant of PlatformWakeLock_acquire: without a session bus it gives up
\* instead of falling back to logind.
PlatformWakeLock_acquire_nofallback(application_id, reason) ==
    LET s == Connection_session("session")
    IN  IF s.ok
        THEN acquire_session_mechanisms("session", application_id, reason, s.ev)
        ELSE [ok |-> FALSE, err |-> "Unsupported", lock |-> NoLock, ev |-> s.ev]

\* Mutant of PlatformWakeLock_acquire: a failed session connection is tried
\* a second time before the logind fallback.
PlatformWakeLock_acquire_retry(application_id, reason) ==
    LET s == Connection_session("session")
        t == Connection_session("session")
    IN  IF s.ok
        THEN acquire_session_mechanisms("session", application_id, reason, s.ev)
        ELSE IF t.ok
        THEN acquire_session_mechanisms("session", application_id, reason,
                                        s.ev \o t.ev)
        ELSE acquire_logind_fallback(application_id, reason, s.ev \o t.ev)

PlatformWakeLock_acquire(application_id, reason) ==
    LET s == Connection_session("session")
    IN  IF s.ok
        THEN acquire_session_mechanisms("session", application_id, reason, s.ev)
        ELSE acquire_logind_fallback(application_id, reason, s.ev)

\* ------------------------------------------------ PlatformWakeLock::release
\* proxyOk, callOk: whether Proxy::new and the undo call succeed this time.
\* Each arm binds conn by value, so conn is dropped when the arm returns,
\* also through `?`.
ReleaseResult(ret, ev) == [ret |-> ret, ev |-> ev]

\* Mutant of release_GnomeSession: the connection is dropped before the
\* Uninhibit call is made.
release_GnomeSession_early_close(lock, proxyOk, callOk) ==
    LET p == ProxyNew(lock.conn, GnomeDest, GnomePath, GnomeIface, proxyOk)
        c == ProxyCall(lock.conn, GnomeDest, GnomePath, GnomeIface, "Uninhibit",
                       <<>>, <<lock.cookie>>, callOk)
    IN  IF ~proxyOk THEN ReleaseResult("Dbus", <<p, CloseEv(lock.conn)>>)
        ELSE ReleaseResult("Ok", <<p, CloseEv(lock.conn), c>>)

release_GnomeSession(lock, proxyOk, callOk) ==
    LET p == ProxyNew(lock.conn, GnomeDest, GnomePath, GnomeIface, proxyOk)
        c == ProxyCall(lock.conn, GnomeDest, GnomePath, GnomeIface, "Uninhibit",
                       <<>>, <<lock.cookie>>, callOk)
    IN  IF ~proxyOk THEN ReleaseResult("Dbus", <<p, CloseEv(lock.conn)>>)
        ELSE ReleaseResult("Ok", <<p, c, CloseEv(lock.conn)>>)

release_FdoScreenSaver(lock, proxyOk, callOk) ==
    LET p == ProxyNew(lock.conn, ScreenSaverDest, ScreenSaverPath,
                      ScreenSaverIface, proxyOk)
        c == ProxyCall(lock.conn, ScreenSaverDest, ScreenSaverPath,
                       ScreenSaverIface, "UnInhibit", <<>>, <<lock.cookie>>,
                       callOk)
    IN  IF ~proxyOk THEN ReleaseResult("Dbus", <<p, CloseEv(lock.conn)>>)
        ELSE ReleaseResult("Ok", <<p, c, CloseEv(lock.conn)>>)

\* Mutant of release_FdoPowerManagement: the ScreenSaver address, copied from
\* the arm above.
release_FdoPowerManagement_copied(lock, proxyOk, callOk) ==
    LET p == ProxyNew(lock.conn, ScreenSaverDest, ScreenSaverPath,
                      ScreenSaverIface, proxyOk)
        c == ProxyCall(lock.conn, ScreenSaverDest, ScreenSaverPath,
                       ScreenSaverIface, "UnInhibit", <<>>, <<lock.cookie>>,
                       callOk)
    IN  IF ~proxyOk THEN [ret |-> "Dbus", ev |-> <<p, CloseEv(lock.conn)>>]
        ELSE [ret |-> "Ok", ev |-> <<p, c, CloseEv(lock.conn)>>]

release_FdoPowerManagement(lock, proxyOk, callOk) ==
    LET p == ProxyNew(lock.conn, PowerDest, PowerPath, PowerIface, proxyOk)
        c == ProxyCall(lock.conn, PowerDest, PowerPath, PowerIface, "UnInhibit",
                       <<>>, <<lock.cookie>>, callOk)
    IN  IF ~proxyOk THEN ReleaseResult("Dbus", <<p, CloseEv(lock.conn)>>)
        ELSE ReleaseResult("Ok", <<p, c, CloseEv(lock.conn)>>)

\* The proxy is built on the stored request path.
release_XdgPortal(lock, proxyOk, callOk) ==
    LET p == ProxyNew(lock.conn, PortalDest, lock.handle, PortalRequestIface,
                      proxyOk)
        c == ProxyCall(lock.conn, PortalDest, lock.handle, PortalRequestIface,
                       "Close", <<>>, <<>>, callOk)
    IN  IF ~proxyOk THEN ReleaseResult("Dbus", <<p, CloseEv(lock.conn)>>)
        ELSE ReleaseResult("Ok", <<p, c, CloseEv(lock.conn)>>)

\* No call: self is dropped, its fields in declaration order (_conn, _fd).
release_Logind(lock, proxyOk, callOk) ==
    ReleaseResult("Ok", <<CloseEv(lock.conn), CloseEv(lock.fd)>>)

PlatformWakeLock_release(lock, proxyOk, callOk) ==
    CASE lock.backend = "GnomeSession" -> release_GnomeSession(lock, proxyOk, callOk)
      [] lock.backend = "FdoScreenSaver" -> release_FdoScreenSaver(lock, proxyOk, callOk)
      [] lock.backend = "FdoPowerManagement" ->
             release_FdoPowerManagement(lock, proxyOk, callOk)
      [] lock.backend = "XdgPortal" -> release_XdgPortal(lock, proxyOk, callOk)
      [] lock.backend = "Logind" -> release_Logind(lock, proxyOk, callOk)

\* ----------------------------------------------------- linux module functions
\* struct Inner
Inner(lock, active) == [lock |-> lock, active |-> active]
NoInner == Inner(NoLock, FALSE)

\* Mutant of is_supported: && in place of ||.
is_supported_both ==
    LET s == Connection_session("probe_session")
        y == Connection_system("probe_system")
    IN  IF ~s.ok THEN [value |-> FALSE, ev |-> s.ev]
        ELSE IF y.ok
             THEN [value |-> TRUE,
                   ev |-> s.ev \o y.ev \o <<CloseEv("probe_system"),
                                            CloseEv("probe_session")>>]
        ELSE [value |-> FALSE, ev |-> s.ev \o y.ev \o <<CloseEv("probe_session")>>]

\* Mutant of is_supported: only the session bus is probed.
is_supported_session_only ==
    LET s == Connection_session("probe_session")
    IN  IF s.ok THEN [value |-> TRUE, ev |-> s.ev \o <<CloseEv("probe_session")>>]
        ELSE [value |-> FALSE, ev |-> s.ev]

\* Both temporaries live to the end of the expression; || short-circuits.
is_supported ==
    LET s == Connection_session("probe_session")
        y == Connection_system("probe_system")
    IN  IF s.ok THEN [value |-> TRUE, ev |-> s.ev \o <<CloseEv("probe_session")>>]
        ELSE IF y.ok
             THEN [value |-> TRUE, ev |-> s.ev \o y.ev \o <<CloseEv("probe_system")>>]
        ELSE [value |-> FALSE, ev |-> s.ev \o y.ev]

\* struct LinuxOptions and its Default
LinuxOptions(application_id, reason) ==
    [application_id |-> application_id, reason |-> reason]
LinuxOptions_default == LinuxOptions(None, None)

DEFAULT_APPLICATION_ID == "screen_wake_lock"

\* Mutant of acquire: the caller's reason is passed on even when the options
\* carry an override.
acquire_ignores_override(reason, linux) ==
    LET application_id == IF linux.application_id = None
                          THEN DEFAULT_APPLICATION_ID
                          ELSE linux.application_id
        r == PlatformWakeLock_acquire(application_id, reason)
    IN  IF r.ok
        THEN [ok |-> TRUE, err |-> "", inner |-> Inner(r.lock, TRUE), ev |-> r.ev]
        ELSE [ok |-> FALSE, err |-> r.err, inner |-> NoInner, ev |-> r.ev]

acquire(reason, linux) ==
    LET application_id == IF linux.application_id = None
                          THEN DEFAULT_APPLICATION_ID
                          ELSE linux.application_id
        effective_reason == IF linux.reason = None THEN reason ELSE linux.reason
        r == PlatformWakeLock_acquire(application_id, effective_reason)
    IN  IF r.ok
        THEN [ok |-> TRUE, err |-> "", inner |-> Inner(r.lock, TRUE), ev |-> r.ev]
        ELSE [ok |-> FALSE, err |-> r.err, inner |-> NoInner, ev |-> r.ev]

\* ret is what lock.release() returned and release discards ("skipped" when
\* release returned at the active check, "no_lock" when take() gave None);
\* returned is what release hands its caller: the function returns ().
Released(in, ret, ev) ==
    [inner |-> in, ret |-> ret, returned |-> "()", ev |-> ev]

\* Mutant of release: the lock is released in place, neither taken out of
\* the guard nor marked inactive.
release_keeps(in, proxyOk, callOk) ==
    IF ~in.active THEN Released(in, "skipped", <<>>)
    ELSE LET r == PlatformWakeLock_release(in.lock, proxyOk, callOk)
         IN  Released(in, r.ret, r.ev)

\* Mutant of release: the backend's error is propagated with `?`.
release_propagates(in, proxyOk, callOk) ==
    IF ~in.active THEN Released(in, "skipped", <<>>)
    ELSE LET r == PlatformWakeLock_release(in.lock, proxyOk, callOk)
         IN  IF r.ret = "Ok" THEN Released(Inner(NoLock, FALSE), r.ret, r.ev)
             ELSE [inner |-> Inner(NoLock, TRUE), ret |-> r.ret,
                   returned |-> r.ret, ev |-> r.ev]

\* Mutant of release: the lock is taken and released but the flag is not
\* cleared.
release_forgets_flag(in, proxyOk, callOk) ==
    IF ~in.active THEN Released(in, "skipped", <<>>)
    ELSE IF in.lock # NoLock
         THEN LET r == PlatformWakeLock_release(in.lock, proxyOk, callOk)
              IN  Released(Inner(NoLock, TRUE), r.ret, r.ev)
    ELSE Released(Inner(NoLock, TRUE), "no_lock", <<>>)

release(in, proxyOk, callOk) ==
    IF ~in.active THEN Released(in, "skipped", <<>>)
    ELSE IF in.lock # NoLock
         THEN LET r == PlatformWakeLock_release(in.lock, proxyOk, callOk)
              IN  Released(Inner(NoLock, FALSE), r.ret, r.ev)
    ELSE Released(Inner(NoLock, FALSE), "no_lock", <<>>)

\* ------------------------------------------------------------------- lib.rs
ScreenWakeLock_acquire_with_linux_options(reason, linux) == acquire(reason, linux)
ScreenWakeLock_acquire(reason) ==
    ScreenWakeLock_acquire_with_linux_options(reason, LinuxOptions_default)
ScreenWakeLock_is_supported == is_supported

\* impl Drop for ScreenWakeLock (ScreenWakeLock::release is drop(self)).
ScreenWakeLock_drop(in, proxyOk, callOk) == release(in, proxyOk, callOk)

\* ------------------------------------------------------------ Linux actions
NoArgs == [reason |-> None, linux |-> LinuxOptions_default]

envVars == <<sessionOk, systemOk, mechOut, token>>

Acquired_(r, reason, linux) ==
    /\ args' = [reason |-> reason, linux |-> linux]
    /\ result' = IF r.ok THEN "Ok" ELSE r.err
    /\ inner' = r.inner
    /\ granted' = r.inner.lock
    /\ acqEv' = r.ev
    /\ open' = Replay(open, r.ev)
    /\ UNCHANGED <<envVars, relEv, relRet, relOut, probes, winVars, macVars>>

\* ScreenWakeLock::acquire(reason)
Acquire ==
    /\ result = "pending"
    /\ \E reason \in Reasons :
           Acquired_(ScreenWakeLock_acquire(reason), reason, LinuxOptions_default)

\* ScreenWakeLock::acquire_with_linux_options(reason, linux)
AcquireWithOptions ==
    /\ result = "pending"
    /\ \E reason \in Reasons, a \in AppIds, o \in ReasonOverrides :
           Acquired_(ScreenWakeLock_acquire_with_linux_options(
                         reason, LinuxOptions(a, o)),
                     reason, LinuxOptions(a, o))

\* Drop::drop / ScreenWakeLock::release on the guard acquire returned.  Rust
\* runs it once; further invocations exercise the active flag.
Release ==
    /\ result = "Ok"
    /\ Len(relEv) < MaxReleases
    /\ \E proxyOk \in BOOLEAN, callOk \in BOOLEAN :
           LET r == ScreenWakeLock_drop(inner, proxyOk, callOk)
           IN  /\ inner' = r.inner
               /\ relEv' = Append(relEv, r.ev)
               /\ relRet' = Append(relRet, r.ret)
               /\ relOut' = Append(relOut, r.returned)
               /\ open' = Replay(open, r.ev)
    /\ UNCHANGED <<envVars, args, result, granted, acqEv, probes, winVars, macVars>>

\* ScreenWakeLock::is_supported()
IsSupported ==
    /\ Len(probes) < MaxProbes
    /\ LET r == ScreenWakeLock_is_supported
       IN  /\ probes' = Append(probes, r.value)
           /\ open' = Replay(open, r.ev)
    /\ UNCHANGED <<envVars, args, result, inner, granted, acqEv, relEv, relRet,
                   relOut, winVars, macVars>>

\* ------------------------------------------------------------- windows.rs
POWER_REQUEST_CONTEXT_VERSION == 0
POWER_REQUEST_CONTEXT_SIMPLE_STRING == 1
POWER_REQUEST_DISPLAY_REQUIRED == 0
POWER_REQUEST_SYSTEM_REQUIRED == 1

\* Reasons as sequences of Unicode scalar values ("de", and U+1F600).
WinReasons == {<<100, 101>>, <<128512>>}
WinHandles == {100, 200}

\* str::encode_utf16: one unit below U+10000, a surrogate pair above.
RECURSIVE encode_utf16(_)
encode_utf16(str) ==
    IF str = <<>> THEN <<>>
    ELSE LET ch == Head(str)
             units == IF ch < 65536 THEN <<ch>>
                      ELSE <<55296 + ((ch - 65536) \div 1024),
                             56320 + ((ch - 65536) % 1024)>>
         IN units \o encode_utf16(Tail(str))

WinEv(api, handle, request, ctx, ok) ==
    [api |-> api, handle |-> handle, request |-> request, ctx |-> ctx, ok |-> ok]

\* struct PlatformWakeLock { handle, _reason_wide }
WinLock(handle, reason_wide) == [handle |-> handle, reason_wide |-> reason_wide]
NoWinLock == WinLock(0, <<>>)

\* REASON_CONTEXT { Version, Flags, Reason.SimpleReasonString }
REASON_CONTEXT(reason_wide) ==
    <<POWER_REQUEST_CONTEXT_VERSION, POWER_REQUEST_CONTEXT_SIMPLE_STRING>>
        \o reason_wide

PowerCreateRequest(ctx) ==
    WinEv("PowerCreateRequest", IF winOut.create THEN winHandleVal ELSE 0,
          -1, ctx, winOut.create)
PowerSetRequest(handle, request) ==
    WinEv("PowerSetRequest", handle, request, <<>>,
          IF request = POWER_REQUEST_SYSTEM_REQUIRED THEN winOut.setSys
          ELSE winOut.setDisp)
PowerClearRequest(handle, request) ==
    WinEv("PowerClearRequest", handle, request, <<>>,
          IF request = POWER_REQUEST_SYSTEM_REQUIRED THEN winOut.clearSys
          ELSE winOut.clearDisp)
CloseHandle(handle) == WinEv("CloseHandle", handle, -1, <<>>, winOut.close)

\* Mutant of set_requests: the result of setting DisplayRequired is not
\* propagated.
set_requests_display_unchecked(handle) ==
    LET s == PowerSetRequest(handle, POWER_REQUEST_SYSTEM_REQUIRED)
        d == PowerSetRequest(handle, POWER_REQUEST_DISPLAY_REQUIRED)
    IN  IF ~s.ok THEN [ok |-> FALSE, ev |-> <<s>>]
        ELSE [ok |-> TRUE, ev |-> <<s, d>>]

\* The closure of acquire: SystemRequired, then DisplayRequired; `?` leaves
\* at the first failure.
set_requests(handle) ==
    LET s == PowerSetRequest(handle, POWER_REQUEST_SYSTEM_REQUIRED)
        d == PowerSetRequest(handle, POWER_REQUEST_DISPLAY_REQUIRED)
    IN  IF ~s.ok THEN [ok |-> FALSE, ev |-> <<s>>]
        ELSE IF ~d.ok THEN [ok |-> FALSE, ev |-> <<s, d>>]
        ELSE [ok |-> TRUE, ev |-> <<s, d>>]

\* Mutant of close_on_error: the error is returned without closing the
\* request.
close_on_error_leaks(handle, ev) == [ok |-> FALSE, lock |-> NoWinLock, ev |-> ev]

\* The error path after the request was created.
close_on_error(handle, ev) ==
    [ok |-> FALSE, lock |-> NoWinLock, ev |-> ev \o <<CloseHandle(handle)>>]

windows_PlatformWakeLock_acquire(reason) ==
    LET reason_wide == Append(encode_utf16(reason), 0)
        create == PowerCreateRequest(REASON_CONTEXT(reason_wide))
        q == set_requests(create.handle)
    IN  IF ~create.ok THEN [ok |-> FALSE, lock |-> NoWinLock, ev |-> <<create>>]
        ELSE IF ~q.ok THEN close_on_error(create.handle, <<create>> \o q.ev)
        ELSE [ok |-> TRUE, lock |-> WinLock(create.handle, reason_wide),
              ev |-> <<create>> \o q.ev]

\* Mutant of PlatformWakeLock::release: each clear is propagated with `?`, so
\* a failed clear returns before the handle is closed.
windows_PlatformWakeLock_release_strict(lock) ==
    LET d == PowerClearRequest(lock.handle, POWER_REQUEST_DISPLAY_REQUIRED)
        y == PowerClearRequest(lock.handle, POWER_REQUEST_SYSTEM_REQUIRED)
        c == CloseHandle(lock.handle)
    IN  IF ~d.ok THEN [ret |-> "Err", ev |-> <<d>>]
        ELSE IF ~y.ok THEN [ret |-> "Err", ev |-> <<d, y>>]
        ELSE [ret |-> IF c.ok THEN "Ok" ELSE "Err", ev |-> <<d, y, c>>]

windows_PlatformWakeLock_release(lock) ==
    LET d == PowerClearRequest(lock.handle, POWER_REQUEST_DISPLAY_REQUIRED)
        y == PowerClearRequest(lock.handle, POWER_REQUEST_SYSTEM_REQUIRED)
        c == CloseHandle(lock.handle)
    IN  [ret |-> IF c.ok THEN "Ok" ELSE "Err", ev |-> <<d, y, c>>]

\* The kernel's view after the calls ev: open request handles, and the
\* request types set.
RECURSIVE WinReplay(_, _)
WinReplay(st, ev) ==
    IF ev = <<>> THEN st
    ELSE LET e == Head(ev)
             st1 ==
                 IF ~e.ok THEN st
                 ELSE IF e.api = "PowerCreateRequest"
                      THEN [st EXCEPT !.open = @ \cup {e.handle}]
                 ELSE IF e.api = "PowerSetRequest"
                      THEN [st EXCEPT !.flags = @ \cup {e.request}]
                 ELSE IF e.api = "PowerClearRequest"
                      THEN [st EXCEPT !.flags = @ \ {e.request}]
                 ELSE [st EXCEPT !.open = @ \ {e.handle}]
         IN WinReplay(st1, Tail(ev))


\* --------------------------------------------------------------- macos.rs
ASSERTION_TYPE_NO_DISPLAY_SLEEP == "NoDisplaySleepAssertion"
kIOReturnSuccess == "kIOReturnSuccess"
kIOPMAssertionLevelOn == "kIOPMAssertionLevelOn"

\* Status codes IOKit may answer with, and assertion ids it may hand out.
MacCodes == {kIOReturnSuccess, "kIOReturnNoMemory", "kIOReturnNotPrivileged"}
MacIds == {7, 8, 9}
MacReasons == {"demo", "build"}

MacEv(api, type, level, name, id, rc) ==
    [api |-> api, type |-> type, level |-> level, name |-> name, id |-> id,
     rc |-> rc]

\* IOPMAssertionCreateWithName(type, level, name, &mut id): the id is written
\* on success; on failure the caller's initial 0 stays.
IOPMAssertionCreateWithName(type, level, name) ==
    MacEv("IOPMAssertionCreateWithName", type, level, name,
          IF macRc = kIOReturnSuccess THEN macId ELSE 0, macRc)
IOPMAssertionRelease(id) ==
    MacEv("IOPMAssertionRelease", "", "", "", id, macRelRc)

\* struct Inner { id, active }
macos_Inner(id, active) == [id |-> id, active |-> active]
macos_NoInner == macos_Inner(0, FALSE)

macos_is_supported == TRUE

\* Mutant of macos acquire: the status code is not looked at.
macos_acquire_unchecked(reason) ==
    LET c == IOPMAssertionCreateWithName(ASSERTION_TYPE_NO_DISPLAY_SLEEP,
                                         kIOPMAssertionLevelOn, reason)
    IN  [ok |-> TRUE, err |-> "", inner |-> macos_Inner(c.id, TRUE), ev |-> <<c>>]

macos_acquire(reason) ==
    LET c == IOPMAssertionCreateWithName(ASSERTION_TYPE_NO_DISPLAY_SLEEP,
                                         kIOPMAssertionLevelOn, reason)
    IN  IF c.rc # kIOReturnSuccess
        THEN [ok |-> FALSE, err |-> "Os", inner |-> macos_NoInner, ev |-> <<c>>]
        ELSE [ok |-> TRUE, err |-> "", inner |-> macos_Inner(c.id, TRUE),
              ev |-> <<c>>]

\* release(inner: &mut Inner): nothing when inactive; otherwise the release
\* call, whose status is discarded, and the flag is cleared.
macos_release(in) ==
    IF ~in.active THEN [inner |-> in, ev |-> <<>>]
    ELSE [inner |-> macos_Inner(in.id, FALSE), ev |-> <<IOPMAssertionRelease(in.id)>>]

\* The power manager's view after the calls ev: the assertions in force.
RECURSIVE MacReplay(_, _)
MacReplay(h, ev) ==
    IF ev = <<>> THEN h
    ELSE LET e == Head(ev)
             h1 == IF e.rc # kIOReturnSuccess THEN h
                   ELSE IF e.api = "IOPMAssertionCreateWithName"
                        THEN h \cup {e.id}
                   ELSE h \ {e.id}
         IN MacReplay(h1, Tail(ev))

\* ----------------------------------------------------------- initial states
LinuxIdle ==
    /\ args = NoArgs
    /\ result = "pending"
    /\ inner = NoInner
    /\ granted = NoLock
    /\ open = {}
    /\ acqEv = <<>>
    /\ relEv = <<>>
    /\ relRet = <<>>
    /\ relOut = <<>>
    /\ probes = <<>>

WinIdle ==
    /\ wResult = "pending"
    /\ wLock = NoWinLock
    /\ wOpen = {}
    /\ wFlags = {}
    /\ wAcqEv = <<>>
    /\ wRelEv = <<>>
    /\ wRelRet = "pending"

MacIdle ==
    /\ mArgs = None
    /\ mResult = "pending"
    /\ mInner = macos_NoInner
    /\ mGranted = macos_NoInner
    /\ mHeld = {}
    /\ mAcqEv = <<>>
    /\ mRelEv = <<>>
    /\ mProbes = <<>>

\* Builds without the macOS backend: IOKit is never called.
MacAbsent ==
    /\ macRc = "kIOReturnNotPrivileged"
    /\ macId = 0
    /\ macRelRc = "kIOReturnNotPrivileged"
    /\ MacIdle

WinOutcomes ==
    [create : BOOLEAN, setSys : BOOLEAN, setDisp : BOOLEAN, clearDisp : BOOLEAN,
     clearSys : BOOLEAN, close : BOOLEAN]

\* The Linux build: any environment; the Windows backend is not compiled in.
Init ==
    /\ sessionOk \in BOOLEAN
    /\ systemOk \in BOOLEAN
    /\ mechOut \in [1..5 -> Outcomes]
    /\ token \in Tokens
    /\ LinuxIdle
    /\ winOut = [create |-> FALSE, setSys |-> FALSE, setDisp |-> FALSE,
                 clearDisp |-> FALSE, clearSys |-> FALSE, close |-> FALSE]
    /\ winHandleVal = 0
    /\ WinIdle
    /\ MacAbsent

\* The Windows build.
WinInit ==
    /\ sessionOk = FALSE
    /\ systemOk = FALSE
    /\ mechOut = [m \in 1..5 |-> "call_err"]
    /\ token = 1
    /\ LinuxIdle
    /\ winOut \in WinOutcomes
    /\ winHandleVal \in WinHandles
    /\ WinIdle
    /\ MacAbsent

\* The macOS build.
MacInit ==
    /\ sessionOk = FALSE
    /\ systemOk = FALSE
    /\ mechOut = [m \in 1..5 |-> "call_err"]
    /\ token = 1
    /\ LinuxIdle
    /\ winOut = [create |-> FALSE, setSys |-> FALSE, setDisp |-> FALSE,
                 clearDisp |-> FALSE, clearSys |-> FALSE, close |-> FALSE]
    /\ winHandleVal = 0
    /\ WinIdle
    /\ macRc \in MacCodes
    /\ macId \in MacIds
    /\ macRelRc \in MacCodes
    /\ MacIdle

\* ------------------------------------------------------------ macOS actions
\* ScreenWakeLock::acquire(reason) on macOS (the options are ignored).
MacAcquire ==
    /\ mResult = "pending"
    /\ \E reason \in MacReasons :
           LET r == macos_acquire(reason)
           IN  /\ mArgs' = reason
               /\ mResult' = IF r.ok THEN "Ok" ELSE r.err
               /\ mInner' = r.inner
               /\ mGranted' = r.inner
               /\ mAcqEv' = r.ev
               /\ mHeld' = MacReplay(mHeld, r.ev)
    /\ UNCHANGED <<macRc, macId, macRelRc, mRelEv, mProbes, linuxVars, winVars>>

\* Drop::drop / ScreenWakeLock::release on the guard acquire returned.  Rust
\* runs it once; further invocations exercise the active flag.
MacRelease ==
    /\ mResult = "Ok"
    /\ Len(mRelEv) < MaxReleases
    /\ LET r == macos_release(mInner)
       IN  /\ mInner' = r.inner
           /\ mRelEv' = Append(mRelEv, r.ev)
           /\ mHeld' = MacReplay(mHeld, r.ev)
    /\ UNCHANGED <<macRc, macId, macRelRc, mArgs, mResult, mGranted, mAcqEv,
                   mProbes, linuxVars, winVars>>

\* ScreenWakeLock::is_supported() on macOS.
MacIsSupported ==
    /\ Len(mProbes) < MaxProbes
    /\ mProbes' = Append(mProbes, macos_is_supported)
    /\ UNCHANGED <<macRc, macId, macRelRc, mArgs, mResult, mInner, mGranted,
                   mHeld, mAcqEv, mRelEv, linuxVars, winVars>>

\* ---------------------------------------------------------- Windows actions
WinAcquire ==
    /\ wResult = "pending"
    /\ \E reason \in WinReasons :
           LET r == windows_PlatformWakeLock_acquire(reason)
               st == WinReplay([open |-> wOpen, flags |-> wFlags], r.ev)
           IN  /\ wResult' = IF r.ok THEN "Ok" ELSE "Err"
               /\ wLock' = r.lock
               /\ wAcqEv' = r.ev
               /\ wOpen' = st.open
               /\ wFlags' = st.flags
    /\ UNCHANGED <<winOut, winHandleVal, wRelEv, wRelRet, linuxVars, macVars>>

\* release(self) consumes the lock: it runs at most once.
WinRelease ==
    /\ wResult = "Ok"
    /\ wRelRet = "pending"
    /\ LET r == windows_PlatformWakeLock_release(wLock)
           st == WinReplay([open |-> wOpen, flags |-> wFlags], r.ev)
       IN  /\ wRelRet' = r.ret
           /\ wRelEv' = r.ev
           /\ wOpen' = st.open
           /\ wFlags' = st.flags
    /\ UNCHANGED <<winOut, winHandleVal, wResult, wLock, wAcqEv, linuxVars, macVars>>

\* ------------------------------------------------------------ specifications
Next == Acquire \/ AcquireWithOptions \/ Release \/ IsSupported

Spec == Init /\ [][Next]_vars

WinNext == WinAcquire \/ WinRelease

WinSpec == WinInit /\ [][WinNext]_vars

MacNext == MacAcquire \/ MacRelease \/ MacIsSupported

MacSpec == MacInit /\ [][MacNext]_vars

\* =================================================================== claims
\* Vocabulary of the claims, read off the recorded events.
MechIndex(kind) ==
    CASE kind = "GnomeSession" -> 1
      [] kind = "FdoScreenSaver" -> 2
      [] kind = "FdoPowerManagement" -> 3
      [] kind = "XdgPortal" -> 4
      [] kind = "Logind" -> 5
      [] OTHER -> 0

DestOf(m) ==
    CASE m = 1 -> GnomeDest
      [] m = 2 -> ScreenSaverDest
      [] m = 3 -> PowerDest
      [] m = 4 -> PortalDest
      [] OTHER -> LogindDest

IsRemote(e) == e.op \in {"proxy", "call"}
IsCall(e) == e.op = "call"
Has(ev, e) == \E i \in 1..Len(ev) : ev[i] = e

\* Mechanism m was attempted during acquire: a proxy for its service was asked
\* for (1-4), or try_logind was entered, which first opens the system bus (5).
Attempted(m) ==
    IF m = 5
    THEN \E i \in 1..Len(acqEv) :
             \/ acqEv[i].op = "open" /\ acqEv[i].conn = "system"
             \/ IsRemote(acqEv[i]) /\ acqEv[i].svc = LogindDest
    ELSE \E i \in 1..Len(acqEv) : IsRemote(acqEv[i]) /\ acqEv[i].svc = DestOf(m)

\* Mechanism m's Inhibit call was answered with success during acquire.
InhibitOk(m) ==
    \E i \in 1..Len(acqEv) :
        /\ IsCall(acqEv[i]) /\ acqEv[i].svc = DestOf(m)
        /\ acqEv[i].method = "Inhibit" /\ acqEv[i].ok

\* The environment lets mechanism m succeed: its bus opens and it answers.
Works(m) == mechOut[m] = "ok" /\ (IF m = 5 THEN systemOk ELSE sessionOk)

SessionOpened == Has(acqEv, OpenEv("session", TRUE))
Returned == result # "pending"
Held == MechIndex(granted.backend)

\* Every remote event of every release addresses the recorded mechanism.
ReleaseAddressesHeld ==
    \A j \in 1..Len(relEv) : \A i \in 1..Len(relEv[j]) :
        /\ IsRemote(relEv[j][i]) => relEv[j][i].svc = DestOf(Held)
        /\ relEv[j][i].op \in {"open", "close"}
               => relEv[j][i] \in {CloseEv(granted.conn), CloseEv(granted.fd)}

C1_Recorded ==
    /\ Held \in 1..5
    /\ Works(Held) /\ InhibitOk(Held)
    /\ \A m \in 1..(Held - 1) : ~Works(m) /\ ~InhibitOk(m)
    /\ \A m \in (Held + 1)..5 : ~Attempted(m)
    /\ ReleaseAddressesHeld

\* C1 as stated: the handle records the lowest-numbered mechanism that
\* succeeds, every mechanism before it was attempted and failed, none after it
\* is attempted, and release addresses the recorded mechanism only.
C1_Original ==
    result = "Ok" =>
        /\ C1_Recorded
        /\ \A m \in 1..(Held - 1) : Attempted(m)

\* C1 (amended): acquire is first-match over the fixed order: whenever some
\* mechanism can succeed acquire returns a handle; the handle records the
\* lowest-numbered mechanism that succeeds; no mechanism after it is attempted;
\* every mechanism before it failed, and was attempted exactly when the
\* session connection had been opened (with no session bus, mechanisms 1-4 are
\* skipped, not attempted); release addresses the recorded mechanism only.
C1_FirstMatch ==
    /\ (Returned /\ \E m \in 1..5 : Works(m)) => result = "Ok"
    /\ result = "Ok" =>
           /\ C1_Recorded
           /\ \A m \in 1..(Held - 1) : Attempted(m) <=> SessionOpened

\* Two mechanisms failed, the third succeeded, and the guard was released.
C1_Witness ==
    /\ result = "Ok" /\ granted.backend = "FdoPowerManagement"
    /\ Len(relEv) >= 1

\* The undo of the held inhibition: the un-inhibit / Close call, or for logind
\* the closing of the descriptor.  UndoSet: where undos occur, as <<release
\* invocation, position>>.
IsUndo(e) ==
    IF granted.backend = "Logind" THEN e = CloseEv(granted.fd) ELSE IsCall(e)

UndoSet ==
    UNION {{<<j, i>> : i \in {k \in 1..Len(relEv[j]) : IsUndo(relEv[j][k])}} :
           j \in 1..Len(relEv)}

LaterReleasesNoOp ==
    \A j \in 2..Len(relEv) : relEv[j] = <<>> /\ relRet[j] = "skipped"

C3_AllFail ==
    (Returned /\ \A m \in 1..5 : ~Works(m)) =>
        /\ result = "Unsupported"
        /\ inner = NoInner /\ granted = NoLock
        /\ open \cap {"session", "system", "fd"} = {}

\* Both buses opened, all five mechanisms failed.
C3_Witness ==
    /\ result = "Unsupported" /\ sessionOk /\ systemOk
    /\ \A m \in 1..5 : Attempted(m)

\* The successful Inhibit call of acquire, and the calls of the first release.
InhibitCall == acqEv[CHOOSE i \in 1..Len(acqEv) : IsCall(acqEv[i]) /\ acqEv[i].ok]
UndoCalls == SelectSeq(relEv[1], IsCall)
UndoMethod ==
    CASE Held = 1 -> "Uninhibit"
      [] Held \in {2, 3} -> "UnInhibit"
      [] OTHER -> "Close"

\* The one call release owes the recorded mechanism: the same service, object
\* and interface the inhibit call went to, carrying the returned cookie; for
\* the portal, Close on the returned request path.
RightUndo(c) ==
    /\ c.conn = InhibitCall.conn
    /\ c.svc = InhibitCall.svc
    /\ c.method = UndoMethod
    /\ IF Held = 4
       THEN /\ c.path = RequestPathOf(token)
            /\ c.iface = PortalRequestIface
            /\ c.nargs = <<>> /\ c.sargs = <<>>
       ELSE /\ c.path = InhibitCall.path
            /\ c.iface = InhibitCall.iface
            /\ c.nargs = <<CookieOf(token)>> /\ c.sargs = <<>>

LogindReleaseOnlyCloses ==
    /\ \A i \in 1..Len(relEv[1]) : ~IsRemote(relEv[1][i])
    /\ {relEv[1][i] : i \in 1..Len(relEv[1])} = {CloseEv("system"), CloseEv("fd")}

\* C4 as stated: release of a cookie mechanism issues that service's
\* un-inhibit call with the cookie acquire returned, of the portal issues
\* Close at the returned path, of logind issues no call and only closes the
\* descriptor and connection; no other service is contacted.
C4_Original ==
    (result = "Ok" /\ Len(relEv) >= 1) =>
        /\ ReleaseAddressesHeld
        /\ IF Held = 5 THEN LogindReleaseOnlyCloses
           ELSE Len(UndoCalls) = 1 /\ RightUndo(UndoCalls[1])

\* C4 (amended): as stated, except that a cookie or portal release whose
\* proxy cannot be created issues no remote call at all (and the backend
\* returns the D-Bus error); whenever the proxy is created exactly the one
\* call described is issued.
C4_Dispatch ==
    (result = "Ok" /\ Len(relEv) >= 1) =>
        /\ ReleaseAddressesHeld
        /\ IF Held = 5 THEN LogindReleaseOnlyCloses
           ELSE IF relRet[1] = "Ok"
                THEN Len(UndoCalls) = 1 /\ RightUndo(UndoCalls[1])
                ELSE relRet[1] = "Dbus" /\ UndoCalls = <<>>

\* A portal guard released with its Close call issued.
C4_Witness ==
    /\ result = "Ok" /\ granted.backend = "XdgPortal"
    /\ Len(relEv) >= 1 /\ Len(UndoCalls) = 1

\* C5: mechanisms 1-4 are attempted only on an opened session connection;
\* logind is attempted whenever none of 1-4 succeeded, with or without a
\* session connection; with no session bus and a working system bus and
\* logind, acquire succeeds with the logind mechanism.
C5_Fallback ==
    Returned =>
        /\ \A m \in 1..4 : Attempted(m) => SessionOpened /\ sessionOk
        /\ ~sessionOk => \A m \in 1..4 : ~Attempted(m)
        /\ Attempted(5) <=> \A m \in 1..4 : ~InhibitOk(m)
        /\ (~sessionOk /\ Works(5)) =>
               result = "Ok" /\ granted.backend = "Logind"

\* No session bus; the guard is held through logind.
C5_Witness ==
    /\ ~sessionOk /\ result = "Ok" /\ granted.backend = "Logind"
    /\ inner.active

\* C6: a guard release never surfaces a failure: whatever the backend release
\* did or returned, release returns (), the handle is consumed, its
\* connection (and descriptor) closed, and the active flag cleared.
C6_NeverSurfaced ==
    (result = "Ok" /\ Len(relEv) >= 1) =>
        /\ \A j \in 1..Len(relOut) : relOut[j] = "()"
        /\ inner = Inner(NoLock, FALSE)
        /\ granted.conn \notin open /\ granted.fd \notin open

\* The backend release failed at Proxy::new and returned the D-Bus error.
C6_Witness ==
    /\ result = "Ok" /\ Len(relEv) >= 1 /\ relRet[1] = "Dbus"

C8_WeakContract ==
    (Returned /\ Len(probes) >= 1 /\ (sessionOk \/ systemOk)
        /\ \A m \in 1..5 : mechOut[m] # "ok") =>
        probes[1] /\ result = "Unsupported"

\* is_supported said true and acquire failed with Unsupported.
C8_Witness ==
    /\ Len(probes) >= 1 /\ probes[1]
    /\ result = "Unsupported"

\* C9: while a guard is active, the connection its inhibit call was made on
\* (session for 1-4, system for logind) is open and held in the guard's
\* handle, for logind the descriptor too; they are closed by release only.
C9_ConnectionHeld ==
    /\ inner.active =>
           /\ result = "Ok" /\ inner.lock = granted /\ granted # NoLock
           /\ inner.lock.conn = (IF Held = 5 THEN "system" ELSE "session")
           /\ InhibitCall.conn = inner.lock.conn
           /\ inner.lock.conn \in open
           /\ Held = 5 => inner.lock.fd = "fd" /\ "fd" \in open
    /\ result = "Ok" =>
           /\ ~Has(acqEv, CloseEv(granted.conn))
           /\ ~Has(acqEv, CloseEv("fd"))
           /\ granted.conn \notin open =>
                  ~inner.active /\ \E j \in 1..Len(relEv) :
                                       Has(relEv[j], CloseEv(granted.conn))
           /\ (Held = 5 /\ "fd" \notin open) =>
                  ~inner.active /\ \E j \in 1..Len(relEv) :
                                       Has(relEv[j], CloseEv("fd"))

\* An active logind guard acquired after the session mechanisms failed.
C9_Witness ==
    /\ inner.active /\ granted.backend = "Logind" /\ sessionOk

\* The CloseHandle calls among the Win32 calls ev.
WinCloses(ev) == {i \in 1..Len(ev) : ev[i].api = "CloseHandle"}

\* C10: Windows acquire leaves no dangling request.  If PowerCreateRequest
\* fails an error is returned and no handle is closed.  If a PowerSetRequest
\* fails (DisplayRequired is only set after SystemRequired succeeded), the
\* created handle is passed to CloseHandle exactly once, as the last call
\* before the error is returned (so it is not left open when that call
\* succeeds), and no wake lock is returned.
C10_NoDangling ==
    /\ (wResult # "pending" /\ ~(winOut.create /\ winOut.setSys /\ winOut.setDisp))
           => wResult = "Err"
    /\ wResult = "Ok" =>
           /\ WinCloses(wAcqEv) = {}
           /\ wRelRet = "pending" => wLock.handle \in wOpen
    /\ wResult = "Err" =>
           /\ wLock = NoWinLock
           /\ wAcqEv[1].api = "PowerCreateRequest"
           /\ IF ~wAcqEv[1].ok
              THEN Len(wAcqEv) = 1 /\ wOpen = {}
              ELSE LET n == Len(wAcqEv)
                       h == wAcqEv[1].handle
                   IN  /\ WinCloses(wAcqEv) = {n}
                       /\ wAcqEv[n].handle = h
                       /\ wAcqEv[n - 1].api = "PowerSetRequest"
                       /\ ~wAcqEv[n - 1].ok
                       /\ \A i \in 2..(n - 2) : wAcqEv[i].ok
                       /\ wAcqEv[n].ok => h \notin wOpen

\* SystemRequired was set, DisplayRequired failed, and the request was closed.
C10_Witness ==
    /\ wResult = "Err" /\ Len(wAcqEv) = 4
    /\ wAcqEv[3].request = POWER_REQUEST_DISPLAY_REQUIRED /\ ~wAcqEv[3].ok
    /\ wAcqEv[4].api = "CloseHandle" /\ wAcqEv[4].ok

\* C11: Windows release issues exactly three calls on the lock's handle, in
\* this order: PowerClearRequest(DisplayRequired), PowerClearRequest(
\* SystemRequired), CloseHandle.  The clears' results are ignored: whatever
\* they return the close is issued, exactly once, and release returns an
\* error if and only if that close fails.
C11_ReleaseOrder ==
    wRelRet # "pending" =>
        /\ Len(wRelEv) = 3
        /\ \A i \in 1..3 : wRelEv[i].handle = wLock.handle
        /\ wRelEv[1].api = "PowerClearRequest"
        /\ wRelEv[1].request = POWER_REQUEST_DISPLAY_REQUIRED
        /\ wRelEv[2].api = "PowerClearRequest"
        /\ wRelEv[2].request = POWER_REQUEST_SYSTEM_REQUIRED
        /\ WinCloses(wRelEv) = {3}
        /\ wRelRet \in {"Ok", "Err"}
        /\ (wRelRet = "Err") <=> ~wRelEv[3].ok
        /\ wRelEv[3].ok => wLock.handle \notin wOpen

\* Both clears failed, the handle was closed all the same and release
\* returned Ok.
C11_Witness ==
    /\ wRelRet = "Ok"
    /\ ~wRelEv[1].ok /\ ~wRelEv[2].ok
    /\ wRelEv[3].api = "CloseHandle" /\ wRelEv[3].ok

\* The values the claim calls effective, computed from the inputs of the call.
EffectiveAppId ==
    IF args.linux.application_id = None THEN "screen_wake_lock"
    ELSE args.linux.application_id
EffectiveReason ==
    IF args.linux.reason = None THEN args.reason ELSE args.linux.reason

\* The Inhibit calls issued during acquire.
InhibitCalls == {i \in 1..Len(acqEv) : IsCall(acqEv[i]) /\ acqEv[i].method = "Inhibit"}
Range(s) == {s[i] : i \in 1..Len(s)}

\* C12 as stated: every mechanism's Inhibit call carries both the effective
\* application identifier and the effective reason.
C12_Original ==
    Returned =>
        \A i \in InhibitCalls :
            /\ EffectiveAppId \in Range(acqEv[i].sargs)
            /\ EffectiveReason \in Range(acqEv[i].sargs)

\* C12 (amended): the effective application identifier is the options' one
\* when present and "screen_wake_lock" otherwise, the effective reason is
\* the options' override when present and the caller's reason otherwise.
\* Mechanisms 1-3 receive exactly (application identifier, reason), logind
\* receives ("idle", application identifier, reason, "block"), and the portal
\* receives the effective reason only: no application identifier is sent to
\* it.  No call carries any other identifier or reason.
C12_Effective ==
    Returned =>
        \A i \in InhibitCalls :
            LET e == acqEv[i]
            IN  CASE e.svc \in {GnomeDest, ScreenSaverDest, PowerDest} ->
                         e.sargs = <<EffectiveAppId, EffectiveReason>>
                  [] e.svc = PortalDest ->
                         /\ e.sargs = <<"", "reason", EffectiveReason>>
                         /\ EffectiveAppId \notin Range(e.sargs)
                  [] e.svc = LogindDest ->
                         e.sargs = <<"idle", EffectiveAppId, EffectiveReason, "block">>
                  [] OTHER -> FALSE

\* An override reason and no application identifier in the options; the whole
\* chain was walked, so all five mechanisms were handed the values.
C12_Witness ==
    /\ Returned
    /\ args.linux.reason = "override" /\ args.linux.application_id = None
    /\ \A m \in 1..5 : \E i \in InhibitCalls : acqEv[i].svc = DestOf(m)

\* The IOPMAssertionRelease calls issued by all invocations of release so far.
MacReleaseCalls ==
    {<<j, i>> \in (1..Len(mRelEv)) \X (1..1) :
        i <= Len(mRelEv[j]) /\ mRelEv[j][i].api = "IOPMAssertionRelease"}

\* C13: on macOS acquire issues one IOPMAssertionCreateWithName call and
\* returns an error (Error::Os) if and only if its status differs from
\* kIOReturnSuccess; then no guard exists and no IOPMAssertionRelease is ever
\* issued.  Otherwise the guard returned is active and holds the id the call
\* wrote, and only that id is ever released.  is_supported is true whatever
\* the environment.
C13_MacAcquire ==
    /\ \A i \in 1..Len(mProbes) : mProbes[i] = TRUE
    /\ mResult # "pending" =>
           /\ Len(mAcqEv) = 1
           /\ mAcqEv[1].api = "IOPMAssertionCreateWithName"
           /\ mAcqEv[1].name = mArgs
           /\ mResult \in {"Ok", "Os"}
           /\ (mResult = "Os") <=> (mAcqEv[1].rc # kIOReturnSuccess)
    /\ mResult = "Os" =>
           /\ mGranted = macos_NoInner /\ mInner = macos_NoInner
           /\ mHeld = {}
           /\ MacReleaseCalls = {}
    /\ mResult = "Ok" =>
           /\ mGranted = macos_Inner(macId, TRUE)
           /\ mGranted.id = mAcqEv[1].id
           /\ mRelEv = <<>> => (mInner = mGranted /\ mHeld = {mGranted.id})
           /\ \A c \in MacReleaseCalls : mRelEv[c[1]][c[2]].id = mGranted.id

\* The creation call failed: acquire returned Error::Os, is_supported had
\* answered true in the same environment.
C13_Witness ==
    /\ mResult = "Os"
    /\ mAcqEv[1].rc = "kIOReturnNoMemory"
    /\ mProbes = <<TRUE>>

\* How often acquire tried to open connection c, asked for a proxy of mechanism
\* m's service, and called its Inhibit method.
Opens(c) ==
    Cardinality({i \in 1..Len(acqEv) : acqEv[i].op = "open" /\ acqEv[i].conn = c})
Proxies(m) ==
    Cardinality({i \in 1..Len(acqEv) :
                    acqEv[i].op = "proxy" /\ acqEv[i].svc = DestOf(m)})
Calls(m) ==
    Cardinality({i \in 1..Len(acqEv) : IsCall(acqEv[i]) /\ acqEv[i].svc = DestOf(m)})

\* C14: Linux acquire has no retry.  Within one acquire the session
\* connection is opened at most once, the system connection at most once,
\* and each of the five mechanisms is attempted at most once (one proxy, one
\* Inhibit call).  Every remote call returning, acquire is never stuck: as
\* long as it has not returned it can, and what it returns is a guard or the
\* Unsupported error.
C14_NoRetry ==
    /\ Opens("session") <= 1
    /\ Opens("system") <= 1
    /\ \A m \in 1..5 : Proxies(m) <= 1 /\ Calls(m) <= 1 /\ Calls(m) <= Proxies(m)
    /\ Len(acqEv) <= 15
    /\ result = "pending" => ENABLED (Acquire \/ AcquireWithOptions)
    /\ Returned => result \in {"Ok", "Unsupported"}
    /\ result = "Ok" => granted # NoLock
    /\ result = "Unsupported" => granted = NoLock /\ inner = NoInner

\* The longest walk: both connections opened once, all five mechanisms
\* attempted once each, all failed, Unsupported returned.
C14_Witness ==
    /\ result = "Unsupported"
    /\ Opens("session") = 1 /\ Opens("system") = 1
    /\ \A m \in 1..5 : Proxies(m) = 1 /\ Calls(m) = 1

\* C15: a Windows wake lock is returned only after PowerCreateRequest
\* succeeded and both PowerSetRequest calls on the created handle succeeded,
\* SystemRequired first and DisplayRequired second.  Until it is released a
\* returned lock has both request types set, never only one.
C15_BothFlags ==
    wResult = "Ok" =>
        /\ wLock # NoWinLock
        /\ Len(wAcqEv) = 3
        /\ wAcqEv[1].api = "PowerCreateRequest" /\ wAcqEv[1].ok
        /\ wAcqEv[1].handle = wLock.handle
        /\ \A i \in 2..3 :
               /\ wAcqEv[i].api = "PowerSetRequest"
               /\ wAcqEv[i].handle = wLock.handle
               /\ wAcqEv[i].ok
        /\ wAcqEv[2].request = POWER_REQUEST_SYSTEM_REQUIRED
        /\ wAcqEv[3].request = POWER_REQUEST_DISPLAY_REQUIRED
        /\ wRelRet = "pending" =>
               wFlags = {POWER_REQUEST_SYSTEM_REQUIRED, POWER_REQUEST_DISPLAY_REQUIRED}

\* A lock was returned and is held: both request types are set on it.
C15_Witness ==
    /\ wResult = "Ok" /\ wRelRet = "pending"
    /\ wLock.handle \in wOpen
    /\ Cardinality(wFlags) = 2

\* C16: between the operations on a Linux guard, its active flag is true
\* exactly when its lock is present.  A successful acquire sets both (the
\* lock it obtained, and the flag); the first release clears both, whatever
\* PlatformWakeLock::release returned; later releases leave both cleared.
C16_FlagIffLock ==
    /\ inner.active <=> inner.lock # NoLock
    /\ (result = "Ok" /\ relEv = <<>>) => inner = Inner(granted, TRUE)
    /\ (result = "Ok" /\ granted # NoLock /\ relEv # <<>>) => inner = Inner(NoLock, FALSE)
    /\ result # "Ok" => inner = NoInner

\* The first release ran into a D-Bus error: flag and lock are both cleared.
C16_Witness ==
    /\ result = "Ok" /\ granted # NoLock
    /\ Len(relEv) = 1 /\ relRet[1] = "Dbus"
    /\ ~inner.active /\ inner.lock = NoLock

\* Positions in the first release: where the guard's connection is closed,
\* and where the undo call is made.
FirstCloses ==
    {i \in 1..Len(relEv[1]) : relEv[1][i] = CloseEv(granted.conn)}
FirstUndoCalls ==
    {i \in 1..Len(relEv[1]) : IsCall(relEv[1][i]) /\ relEv[1][i].method = UndoMethod}

\* The guard's connection is open when the first release starts, everything
\* release sends goes over it, and it is closed once, as the last step.
OwnConnectionClosedLast ==
    /\ granted.conn \in Replay({}, acqEv)
    /\ \A i \in 1..Len(relEv[1]) :
           IsRemote(relEv[1][i]) => relEv[1][i].conn = granted.conn
    /\ FirstCloses = {Len(relEv[1])}
    /\ granted.conn \notin Replay(Replay({}, acqEv), relEv[1])

\* C17 as stated: releasing a cookie or portal guard always makes the undo
\* call, on the guard's own open connection, and closes that connection only
\* after the call.
C17_Original ==
    (Held \in 1..4 /\ Len(relEv) >= 1) =>
        /\ OwnConnectionClosedLast
        /\ Cardinality(FirstUndoCalls) = 1
        /\ \A i \in FirstUndoCalls : \A k \in FirstCloses : i < k

\* C17 (amended): releasing a cookie or portal guard first asks for a proxy
\* on the guard's own, still open connection.  When the proxy is obtained
\* the undo call is made once on that connection and the connection is
\* closed after the call has returned, whether it succeeded or not.  When
\* the proxy cannot be obtained no undo call is made and the connection is
\* closed right after the failed attempt.  In neither case is the connection
\* closed before an undo call that is made.
C17_CallBeforeClose ==
    (Held \in 1..4 /\ Len(relEv) >= 1) =>
        /\ OwnConnectionClosedLast
        /\ relEv[1][1].op = "proxy" /\ relEv[1][1].svc = DestOf(Held)
        /\ IF relEv[1][1].ok
           THEN /\ Len(relEv[1]) = 3
                /\ FirstUndoCalls = {2}
                /\ relRet[1] = "Ok"
           ELSE /\ Len(relEv[1]) = 2
                /\ FirstUndoCalls = {}
                /\ relRet[1] = "Dbus"

\* A portal guard was released, the Close call failed, and the connection
\* was closed after it.
C17_Witness ==
    /\ Held = 4 /\ Len(relEv) >= 1
    /\ Len(relEv[1]) = 3
    /\ IsCall(relEv[1][2]) /\ ~relEv[1][2].ok
    /\ relEv[1][3] = CloseEv(granted.conn)

\* The bus connections among the open resources.
OpenConnections == open \ {"fd"}

\* C18: every active Linux guard holds exactly one open connection, the one
\* of its recorded mechanism: the session bus for mechanisms 1-4, the system
\* bus for logind.  When acquire reached logind after it had opened the
\* session bus, the session connection was closed during acquire, before
\* the system bus was opened and so before the guard was returned.
C18_OneConnection ==
    /\ inner.active =>
           /\ OpenConnections = {granted.conn}
           /\ granted.conn = IF Held = 5 THEN "system" ELSE "session"
    /\ (Held = 5 /\ SessionOpened) =>
           \E i \in 1..Len(acqEv) :
               /\ acqEv[i] = CloseEv("session")
               /\ \A m \in 1..4 : \E k \in 1..(i - 1) :
                      IsRemote(acqEv[k]) /\ acqEv[k].svc = DestOf(m) /\ ~acqEv[k].ok
               /\ \E j \in (i + 1)..Len(acqEv) : acqEv[j] = OpenEv("system", TRUE)

\* A logind guard obtained after the four session mechanisms failed, asked
\* whether the platform is supported while it was held: only the system
\* connection and the descriptor are open.
C18_Witness ==
    /\ inner.active /\ Held = 5
    /\ \A m \in 1..4 : Attempted(m)
    /\ probes # <<>>
    /\ open = {"system", "fd"}

\* Some is_supported call answered false.
ProbedUnsupported == \E i \in 1..Len(probes) : ~probes[i]

\* C19: the environment staying as it is, when is_supported answers false an
\* acquire (made before or after it) returns the Unsupported error.  It
\* asked for both buses, got neither, and so attempted none of mechanisms
\* 1-4 and issued no call to logind, the Inhibit call included.
C19_UnsupportedAgrees ==
    (ProbedUnsupported /\ Returned) =>
        /\ result = "Unsupported"
        /\ inner = NoInner
        /\ acqEv = <<OpenEv("session", FALSE), OpenEv("system", FALSE)>>
        /\ \A m \in 1..4 : ~Attempted(m)
        /\ Proxies(5) = 0 /\ Calls(5) = 0
        /\ open = {}

\* is_supported answered false and acquire returned Unsupported, although
\* every service would have granted the request had a bus been there.
C19_Witness ==
    /\ probes = <<FALSE>>
    /\ result = "Unsupported"
    /\ \A m \in 1..5 : mechOut[m] = "ok"

====
